---- MODULE Spec2Model ----
(***************************************************************************)
(* SaveFrame (Figma plugin, src/code.ts): the persisted snapshot of        *)
(* collections and presets, the message handlers of figma.ui.onmessage     *)
(* that read-modify-write it, initializePlugin and syncWithSupabase.       *)
(*                                                                         *)
(* src/code.ts holds two revisions of the plugin one after the other; the  *)
(* second (lines 748-1682) assigns figma.ui.onmessage last and is the one  *)
(* modelled.                                                               *)
(*                                                                         *)
(* Every handler is an async function: it runs atomically from one await   *)
(* to the next, and other handlers may run between two awaits. A handler   *)
(* in flight is a task; its steps are                                      *)
(*   start   the message is dispatched, the awaited storage read resolves  *)
(*           and the code up to the next await runs (dispatching has no    *)
(*           effect of its own, so it is merged with the read)             *)
(*   write   the awaited clientStorage.setAsync stores the snapshot        *)
(*   finish  the code after the awaited write runs                         *)
(* and, for the sync, one step per awaited network call.                   *)
(***************************************************************************)
EXTENDS Integers, Sequences, FiniteSets, TLC

VARIABLES
    storage,  \* clientStorage "framePresetsData": NoData or a PluginData
    tasks,    \* handlers in flight, by slot
    remote,   \* the rows of the remote "collections" table
    now,      \* Date.now()
    sent,     \* messages dispatched so far (bounds the run)
    timers,   \* pending setTimeout callbacks of ui-ready
    event,    \* the last step: what it did and what it started from
    lastWrite \* the latest storage write: whose, what it had read, what it wrote

vars == <<storage, tasks, remote, now, sent, timers, event, lastWrite>>

(***************************************************************************)
(* Bounds                                                                  *)
(***************************************************************************)
MaxClock == 2
MaxMsgs == 2
MaxTasks == 2

Slots == 1..MaxTasks

(***************************************************************************)
(* Values                                                                  *)
(***************************************************************************)
Null == "null"                      \* activeCollectionId: null
Undefined == "undefined"            \* an optional attribute that is absent
NoData == [undefined |-> TRUE]      \* getAsync of a key never written
NoSync == 0                         \* lastSyncedAt absent

\* interface FramePreset, with clipsContent standing for the optional
\* presentation attributes
Preset(id, name, width, height, fav, clips) ==
    [id |-> id, name |-> name, width |-> width, height |-> height,
     isFavorite |-> fav, clipsContent |-> clips]

\* interface Collection; isBuiltIn absent is modelled as FALSE (the code
\* only ever tests its truthiness)
Collection(id, name, presets, builtIn) ==
    [id |-> id, name |-> name, presets |-> presets, isBuiltIn |-> builtIn]

\* interface PluginData
PluginData(collections, active, synced) ==
    [collections |-> collections, activeCollectionId |-> active,
     lastSyncedAt |-> synced]

BUILT_IN_COLLECTION_IDS == {"instagram", "facebook", "twitter", "youtube", "figma"}

defaultCollections ==
    << Collection("instagram", "Instagram",
           << Preset("instagram-post", "Post", 1080, 1080, FALSE, Undefined),
              Preset("instagram-story", "Story", 1080, 1920, FALSE, Undefined) >>, TRUE),
       Collection("twitter", "Twitter",
           << Preset("twitter-post", "Post", 1200, 675, FALSE, Undefined),
              Preset("twitter-header", "Header", 1500, 500, FALSE, Undefined) >>, TRUE),
       Collection("facebook", "Facebook",
           << Preset("facebook-post", "Post", 1200, 630, FALSE, Undefined),
              Preset("facebook-cover", "Cover", 820, 312, FALSE, Undefined) >>, TRUE),
       Collection("print", "Print Dimensions",
           << Preset("print-a4", "A4", 2480, 3508, FALSE, Undefined),
              Preset("print-letter", "Letter", 2550, 3300, FALSE, Undefined) >>, TRUE) >>

\* initialData of initializePlugin
initialData == PluginData(defaultCollections, "instagram", NoSync)

\* a preset as the UI sends it with save-preset
Card == Preset("p1", "Card", 400, 300, TRUE, "false")
Banner == Preset("shared-1", "Banner", 800, 200, FALSE, Undefined)

\* A snapshot an earlier run of the plugin left in storage: the built-in
\* collections deleted, one collection created (at time 0, before this run)
\* and one preset saved to it.
earlierData ==
    PluginData(<<Collection("collection-0", "Work", <<Card>>, FALSE)>>,
               "collection-0", NoSync)

(***************************************************************************)
(* Inputs of the messages                                                  *)
(***************************************************************************)
\* ("7" names no collection until one is imported)
MsgCollectionIds == {"instagram", "collection-0", "7"}
MsgPresetIds == {"instagram-post", "p1"}
MsgNames == {"INSTAGRAM", "Work", "Travel"}

MsgPresets == {Card, Banner}

\* msg.presets of save-multiple-presets; isArray FALSE is a missing or
\* non-array field
MsgPresetLists ==
    { [isArray |-> FALSE, items |-> <<>>],
      [isArray |-> TRUE, items |-> <<>>],
      [isArray |-> TRUE, items |-> <<Card, Banner>>] }

\* msg.collectionIds of reorder-collections
MsgOrders ==
    { [isArray |-> FALSE, items |-> <<>>],
      [isArray |-> TRUE, items |-> <<>>],
      [isArray |-> TRUE, items |-> <<"twitter", "instagram">>],
      [isArray |-> TRUE, items |-> <<"missing", "print", "print">>] }

\* msg.collection of save-imported-collection
ImportedCollections ==
    { Collection("7", "work", <<Banner>>, FALSE),
      Collection("instagram", "Instagram",
          << Preset("instagram-post", "Post", 1080, 1080, TRUE, Undefined) >>, TRUE) }

(***************************************************************************)
(* JavaScript helpers                                                      *)
(***************************************************************************)
\* String.prototype.toLowerCase on the names of the model
ToLowerCase(s) ==
    CASE s = "Instagram" -> "instagram"
      [] s = "INSTAGRAM" -> "instagram"
      [] s = "Twitter" -> "twitter"
      [] s = "Facebook" -> "facebook"
      [] s = "Print Dimensions" -> "print dimensions"
      [] s = "Work" -> "work"
      [] s = "Travel" -> "travel"
      [] OTHER -> s

\* Array.prototype.findIndex((c) => c.id === id), 1-based; 0 for -1
FindIndexById(seq, id) ==
    IF \E i \in 1..Len(seq) : seq[i].id = id
    THEN CHOOSE i \in 1..Len(seq) :
             /\ seq[i].id = id
             /\ \A j \in 1..(i - 1) : seq[j].id # id
    ELSE 0

\* Array.prototype.splice(i, 1)
Splice(seq, i) ==
    [j \in 1..(Len(seq) - 1) |-> IF j < i THEN seq[j] ELSE seq[j + 1]]

\* Array.prototype.filter((p) => p.id !== id)
RECURSIVE FilterOutId(_, _)
FilterOutId(seq, id) ==
    IF seq = <<>> THEN <<>>
    ELSE IF Head(seq).id = id THEN FilterOutId(Tail(seq), id)
    ELSE <<Head(seq)>> \o FilterOutId(Tail(seq), id)

IdSet(seq) == {seq[i].id : i \in 1..Len(seq)}

\* the truthiness of an optional boolean attribute
Truthy(v) == v = "true"

(***************************************************************************)
(* Outcomes of the code between two awaits                                 *)
(***************************************************************************)
\* figma.ui.postMessage({type, data}) / ({type: "collection-name-exists", name})
Post(type, data, name) == [type |-> type, data |-> data, name |-> name]
Update(data) == Post("update", data, "")

\* figma.notify(text, {error})
Note(error, text) == [error |-> error, text |-> text]

Outcome(pc, data, posts, notes, threw) ==
    [pc |-> pc, data |-> data, posts |-> posts, notes |-> notes, threw |-> threw]

\* the handler returns (or breaks out of the switch) without a storage write
Done(posts, notes) == Outcome("done", NoData, posts, notes, FALSE)
\* the handler calls savePluginData(data) and awaits it
AwaitWrite(data) == Outcome("write", data, <<>>, <<>>, FALSE)
\* a TypeError leaves the handler: no try/catch encloses the switch
Throw == Outcome("done", NoData, <<>>, <<>>, TRUE)

(***************************************************************************)
(* The message handlers, from the storage read to the next await.          *)
(* data is what getAsync("framePresetsData") resolved to, t is Date.now(). *)
(***************************************************************************)
\* save-preset without the check of isBuiltIn
SavePresetUnguarded(data, msg) ==
    IF data = NoData THEN Throw
    ELSE LET i == FindIndexById(data.collections, msg.collectionId) IN
         IF i = 0 THEN Done(<<>>, <<>>)
         ELSE AwaitWrite([data EXCEPT !.collections[i].presets =
                                          Append(@, msg.preset)])

\* case "save-preset"
SavePresetStart(data, msg) ==
    IF data = NoData THEN Throw
    ELSE LET i == FindIndexById(data.collections, msg.collectionId) IN
         IF i = 0 THEN Done(<<>>, <<>>)
         ELSE IF data.collections[i].isBuiltIn
         THEN Done(<<>>, <<Note(TRUE, "Cannot add presets to built-in collections")>>)
         ELSE AwaitWrite([data EXCEPT !.collections[i].presets =
                                          Append(@, msg.preset)])

\* presets added one for all: only the first of the message is kept
PresetsToAddFirstOnly(items, t) ==
    << Preset("preset-" \o ToString(t) \o "-0",
              items[1].name, items[1].width, items[1].height,
              items[1].isFavorite, "true") >>

\* presetsToAdd of "save-multiple-presets": msg.presets.map(...)
PresetsToAdd(items, t) ==
    [k \in 1..Len(items) |->
        Preset("preset-" \o ToString(t) \o "-" \o ToString(k - 1),
               items[k].name, items[k].width, items[k].height,
               items[k].isFavorite,
               \* Boolean(preset.clipsContent || true)
               LET v == IF Truthy(items[k].clipsContent)
                        THEN items[k].clipsContent ELSE "true"
               IN IF Truthy(v) THEN "true" ELSE "false")]

\* case "save-multiple-presets"
SaveMultiplePresetsStart(data, msg, t) ==
    IF data = NoData THEN Throw
    ELSE LET i == FindIndexById(data.collections, msg.collectionId) IN
         IF i = 0 THEN Done(<<>>, <<>>)
         ELSE IF data.collections[i].isBuiltIn
         THEN Done(<<>>, <<Note(TRUE, "Cannot add presets to built-in collections")>>)
         ELSE IF msg.presets.isArray /\ Len(msg.presets.items) > 0
         THEN AwaitWrite([data EXCEPT !.collections[i].presets =
                                          @ \o PresetsToAdd(msg.presets.items, t)])
         ELSE Done(<<>>, <<>>)

\* a toggle that sets the flag instead of flipping it
ToggleAtSets(data, c, p) ==
    [data EXCEPT !.collections[c].presets[p].isFavorite = TRUE]

\* favData.collections[c].presets[p].isFavorite = !...isFavorite
ToggleAt(data, c, p) ==
    [data EXCEPT !.collections[c].presets[p].isFavorite = ~@]

\* a toggle-favorite that saves and posts the snapshot also when it found
\* nothing to toggle
ToggleFavoriteAlwaysSaves(data, msg) ==
    IF data = NoData THEN Throw
    ELSE LET c == FindIndexById(data.collections, msg.collectionId) IN
         IF c = 0 THEN AwaitWrite(data)
         ELSE LET p == FindIndexById(data.collections[c].presets, msg.presetId) IN
              IF p = 0 THEN AwaitWrite(data)
              ELSE AwaitWrite(ToggleAt(data, c, p))

\* a toggle-favorite that refuses the presets of built-in collections
ToggleFavoriteCustomOnly(data, msg) ==
    IF data = NoData THEN Throw
    ELSE LET c == FindIndexById(data.collections, msg.collectionId) IN
         IF c = 0 THEN Done(<<>>, <<>>)
         ELSE IF data.collections[c].isBuiltIn THEN Done(<<>>, <<>>)
         ELSE LET p == FindIndexById(data.collections[c].presets, msg.presetId) IN
              IF p = 0 THEN Done(<<>>, <<>>)
              ELSE AwaitWrite(ToggleAt(data, c, p))

\* case "toggle-favorite"
ToggleFavoriteStart(data, msg) ==
    IF data = NoData THEN Throw
    ELSE LET c == FindIndexById(data.collections, msg.collectionId) IN
         IF c = 0 THEN Done(<<>>, <<>>)
         ELSE LET p == FindIndexById(data.collections[c].presets, msg.presetId) IN
              IF p = 0 THEN Done(<<>>, <<>>)
              ELSE AwaitWrite(ToggleAt(data, c, p))

\* a set-active-collection that posts its update before it saves
SetActiveCollectionPostsFirst(data, msg) ==
    IF data = NoData THEN Throw
    ELSE Outcome("write", [data EXCEPT !.activeCollectionId = msg.collectionId],
                 <<Update([data EXCEPT !.activeCollectionId = msg.collectionId])>>,
                 <<>>, FALSE)

\* a set-active-collection that ignores an id naming no collection
SetActiveCollectionChecked(data, msg) ==
    IF data = NoData THEN Throw
    ELSE IF FindIndexById(data.collections, msg.collectionId) = 0
    THEN Done(<<>>, <<>>)
    ELSE AwaitWrite([data EXCEPT !.activeCollectionId = msg.collectionId])

\* case "set-active-collection"
SetActiveCollectionStart(data, msg) ==
    IF data = NoData THEN Throw
    ELSE AwaitWrite([data EXCEPT !.activeCollectionId = msg.collectionId])

\* collectionsData.collections.some((c) => c.name.toLowerCase() === msg.name.toLowerCase())
CollectionNameExists(collections, name) ==
    \E i \in 1..Len(collections) :
        ToLowerCase(collections[i].name) = ToLowerCase(name)

\* `collection-${Date.now()}`
NewCollectionId(t) == "collection-" \o ToString(t)

\* create-collection without the check of the name (as in the first
\* revision of the handler)
CreateCollectionUnchecked(data, msg, t) ==
    IF data = NoData THEN Throw
    ELSE AwaitWrite([data EXCEPT
             !.collections = Append(@, Collection(NewCollectionId(t), msg.name, <<>>, FALSE)),
             !.activeCollectionId = NewCollectionId(t)])

\* a create-collection that keeps nothing of what it read
CreateCollectionAlone(data, msg, t) ==
    IF data = NoData THEN Throw
    ELSE AwaitWrite(PluginData(<<Collection(NewCollectionId(t), msg.name, <<>>, FALSE)>>,
                               NewCollectionId(t), NoSync))

\* a create-collection that leaves the active pointer where it was
CreateCollectionKeepsActive(data, msg, t) ==
    IF data = NoData THEN Throw
    ELSE IF CollectionNameExists(data.collections, msg.name)
    THEN Done(<<Post("collection-name-exists", NoData, msg.name)>>, <<>>)
    ELSE AwaitWrite([data EXCEPT
             !.collections = Append(@, Collection(NewCollectionId(t), msg.name, <<>>, FALSE))])

\* case "create-collection"
CreateCollectionStart(data, msg, t) ==
    IF data = NoData THEN Throw
    ELSE IF CollectionNameExists(data.collections, msg.name)
    THEN Done(<<Post("collection-name-exists", NoData, msg.name)>>, <<>>)
    ELSE AwaitWrite([data EXCEPT
             !.collections = Append(@, Collection(NewCollectionId(t), msg.name, <<>>, FALSE)),
             !.activeCollectionId = NewCollectionId(t)])

\* a delete that leaves the active pointer as it was
ActiveAfterDeleteKept(active, deleted, rest) == active

\* the new activeCollectionId of "delete-collection" once the collection
\* is spliced out of rest
ActiveAfterDelete(active, deleted, rest) ==
    IF active = deleted
    THEN IF Len(rest) > 0 THEN rest[1].id ELSE Null
    ELSE active

\* a delete-collection that refuses built-in collections (as the first
\* revision of the handler does)
DeleteCollectionCustomOnly(data, msg) ==
    IF data = NoData THEN Throw
    ELSE LET i == FindIndexById(data.collections, msg.collectionId) IN
         IF i = 0 THEN Done(<<>>, <<>>)
         ELSE IF data.collections[i].isBuiltIn
         THEN Done(<<>>, <<Note(TRUE, "Cannot delete built-in collections")>>)
         ELSE LET rest == Splice(data.collections, i) IN
              AwaitWrite([data EXCEPT
                  !.collections = rest,
                  !.activeCollectionId =
                      ActiveAfterDelete(@, msg.collectionId, rest)])

\* case "delete-collection"
DeleteCollectionStart(data, msg) ==
    IF data = NoData THEN Throw
    ELSE LET i == FindIndexById(data.collections, msg.collectionId) IN
         IF i = 0 THEN Done(<<>>, <<>>)
         ELSE LET rest == Splice(data.collections, i) IN
              AwaitWrite([data EXCEPT
                  !.collections = rest,
                  !.activeCollectionId =
                      ActiveAfterDelete(@, msg.collectionId, rest)])

\* delete-preset without the check of isBuiltIn
DeletePresetUnguarded(data, msg) ==
    IF data = NoData THEN Throw
    ELSE LET i == FindIndexById(data.collections, msg.collectionId) IN
         IF i = 0 THEN Done(<<>>, <<>>)
         ELSE AwaitWrite([data EXCEPT !.collections[i].presets =
                                          FilterOutId(@, msg.presetId)])

\* a delete-preset that removes the first preset with the id only
DeletePresetFirstOnly(data, msg) ==
    IF data = NoData THEN Throw
    ELSE LET i == FindIndexById(data.collections, msg.collectionId) IN
         IF i = 0 THEN Done(<<>>, <<>>)
         ELSE IF data.collections[i].isBuiltIn
         THEN Done(<<>>, <<Note(TRUE, "Cannot delete presets from built-in collections")>>)
         ELSE LET p == FindIndexById(data.collections[i].presets, msg.presetId) IN
              AwaitWrite([data EXCEPT !.collections[i].presets =
                             IF p = 0 THEN @ ELSE Splice(@, p)])

\* case "delete-preset"
DeletePresetStart(data, msg) ==
    IF data = NoData THEN Throw
    ELSE LET i == FindIndexById(data.collections, msg.collectionId) IN
         IF i = 0 THEN Done(<<>>, <<>>)
         ELSE IF data.collections[i].isBuiltIn
         THEN Done(<<>>, <<Note(TRUE, "Cannot delete presets from built-in collections")>>)
         ELSE AwaitWrite([data EXCEPT !.collections[i].presets =
                                          FilterOutId(@, msg.presetId)])

\* a save-imported-collection that appends the collection whether or not
\* one with its id is stored
SaveImportedCollectionAppends(data, msg) ==
    IF data = NoData THEN Throw
    ELSE AwaitWrite([data EXCEPT !.collections = Append(@, msg.collection)])

\* case "save-imported-collection"
SaveImportedCollectionStart(data, msg) ==
    IF data = NoData THEN Throw
    ELSE LET i == FindIndexById(data.collections, msg.collection.id) IN
         IF i > 0
         THEN AwaitWrite([data EXCEPT !.collections[i] = msg.collection])
         ELSE AwaitWrite([data EXCEPT !.collections = Append(@, msg.collection)])

(***************************************************************************)
(* reorder-collections: collectionsMap is a plain object, so its keys are  *)
(* enumerated by for...in with the array-index keys first, in ascending    *)
(* numeric order, and then the others in insertion order. The object is    *)
(* modelled as its entries in insertion order, one per key.                *)
(***************************************************************************)
\* the ids of the model that are canonical array indices, with their values
ArrayIndexKeys == {"7"}
ArrayIndexValue(id) == IF id = "7" THEN 7 ELSE 0

\* collectionsMap[collection.id] = collection
MapSet(entries, c) ==
    LET i == FindIndexById(entries, c.id) IN
    IF i > 0 THEN [entries EXCEPT ![i] = c] ELSE Append(entries, c)

\* for (const collection of reorderData.collections) collectionsMap[...] = ...
RECURSIVE BuildCollectionsMap(_, _)
BuildCollectionsMap(collections, entries) ==
    IF collections = <<>> THEN entries
    ELSE BuildCollectionsMap(Tail(collections), MapSet(entries, Head(collections)))

\* for (const id of msg.collectionIds) if (collectionsMap[id]) { push; delete }
\* returns the collections pushed and the entries left in the map
RECURSIVE TakeInOrder(_, _, _)
TakeInOrder(ids, entries, taken) ==
    IF ids = <<>> THEN [taken |-> taken, left |-> entries]
    ELSE LET i == FindIndexById(entries, Head(ids)) IN
         IF i > 0
         THEN TakeInOrder(Tail(ids), Splice(entries, i), Append(taken, entries[i]))
         ELSE TakeInOrder(Tail(ids), entries, taken)

\* the entries whose key is an array index, in ascending numeric order
RECURSIVE IndexEntriesAscending(_)
IndexEntriesAscending(entries) ==
    LET idx == {i \in 1..Len(entries) : entries[i].id \in ArrayIndexKeys} IN
    IF idx = {} THEN <<>>
    ELSE LET m == CHOOSE i \in idx : \A j \in idx :
                      ArrayIndexValue(entries[i].id) <= ArrayIndexValue(entries[j].id)
         IN <<entries[m]>> \o IndexEntriesAscending(Splice(entries, m))

\* the entries whose key is not an array index, in insertion order
RECURSIVE StringEntries(_)
StringEntries(entries) ==
    IF entries = <<>> THEN <<>>
    ELSE IF Head(entries).id \in ArrayIndexKeys THEN StringEntries(Tail(entries))
    ELSE <<Head(entries)>> \o StringEntries(Tail(entries))

\* for (const id in collectionsMap) reorderedCollections.push(collectionsMap[id])
ForIn(entries) == IndexEntriesAscending(entries) \o StringEntries(entries)

\* reorderedCollections of "reorder-collections"
ReorderedCollections(collections, ids) ==
    LET r == TakeInOrder(ids, BuildCollectionsMap(collections, <<>>), <<>>)
    IN r.taken \o ForIn(r.left)

\* reorder-collections without the validation of msg.collectionIds
ReorderCollectionsUnvalidated(data, msg) ==
    IF data = NoData THEN Throw
    ELSE AwaitWrite([data EXCEPT !.collections =
                        ReorderedCollections(@, msg.collectionIds.items)])

\* case "reorder-collections"
ReorderCollectionsStart(data, msg) ==
    IF data = NoData THEN Throw
    ELSE IF ~msg.collectionIds.isArray \/ Len(msg.collectionIds.items) = 0
    THEN Done(<<>>, <<>>)
    ELSE AwaitWrite([data EXCEPT !.collections =
                        ReorderedCollections(@, msg.collectionIds.items)])

\* a message type the switch has no case for ("use-preset", a case of the
\* first revision only): the handler returns at once
UnhandledStart == Done(<<>>, <<>>)

\* an apply-preset that saves the snapshot once it has applied the preset
ApplyPresetSaves(data, msg) ==
    IF data = NoData THEN Throw
    ELSE LET c == FindIndexById(data.collections, msg.collectionId) IN
         IF c = 0 THEN Done(<<>>, <<Note(TRUE, "Collection not found")>>)
         ELSE LET p == FindIndexById(data.collections[c].presets, msg.presetId) IN
              IF p = 0 THEN Done(<<>>, <<Note(TRUE, "Preset not found")>>)
              ELSE AwaitWrite(data)

\* case "apply-preset": never writes; the canvas is the host's
ApplyPresetStart(data, msg) ==
    IF data = NoData THEN Throw
    ELSE LET c == FindIndexById(data.collections, msg.collectionId) IN
         IF c = 0 THEN Done(<<>>, <<Note(TRUE, "Collection not found")>>)
         ELSE LET p == FindIndexById(data.collections[c].presets, msg.presetId) IN
              IF p = 0 THEN Done(<<>>, <<Note(TRUE, "Preset not found")>>)
              ELSE IF msg.framesSelected
              THEN Done(<<>>, <<Note(FALSE, "Applied preset to selected frames")>>)
              ELSE Done(<<>>, <<Note(FALSE, "Created new frame using preset")>>)

\* handlers that save and tell the UI nothing
AfterWriteSilent(msg, data) == [posts |-> <<>>, notes |-> <<>>]

\* the code after `await savePluginData(...)` of each handler
AfterWrite(msg, data) ==
    CASE msg.type = "save-preset" ->
             [posts |-> <<Update(data)>>, notes |-> <<Note(FALSE, "Preset saved")>>]
      [] msg.type = "save-multiple-presets" ->
             [posts |-> <<Update(data)>>, notes |-> <<Note(FALSE, "Saved presets")>>]
      [] msg.type = "create-collection" ->
             [posts |-> <<Update(data)>>, notes |-> <<Note(FALSE, "Collection created")>>]
      [] msg.type = "delete-collection" ->
             [posts |-> <<Update(data)>>, notes |-> <<Note(FALSE, "Collection deleted")>>]
      [] msg.type = "reorder-collections" ->
             [posts |-> <<Update(data)>>,
              notes |-> <<Note(FALSE, "Collections reordered successfully")>>]
      [] msg.type = "save-imported-collection" ->
             [posts |-> <<>>,
              notes |-> <<Note(FALSE, "Collection imported and saved locally")>>]
      [] msg.type = "sync-to-supabase" ->
             [posts |-> <<>>,
              notes |-> <<Note(FALSE, "Successfully synced all collections to Supabase"),
                          Note(FALSE, "Syncing to Supabase completed")>>]
      [] OTHER -> \* toggle-favorite, set-active-collection, delete-preset
             [posts |-> <<Update(data)>>, notes |-> <<>>]

(***************************************************************************)
(* syncWithSupabase                                                        *)
(***************************************************************************)
\* a row of data.collections.map(...) of the upsert
\* (last_synced_at, a timestamp of the row alone, is left out)
Row(c) ==
    [id |-> c.id, name |-> c.name, presets |-> c.presets,
     is_built_in |-> c.isBuiltIn]

\* an upsert that leaves the built-in collections out
UpsertRowsCustomOnly(collections) ==
    {Row(collections[i]) : i \in
        {i \in 1..Len(collections) : ~collections[i].isBuiltIn}}

\* the rows of the upsert, one per id (of two collections with one id the
\* later one is kept; such an upsert is rejected, see UpsertAccepted)
UpsertRows(collections) ==
    {Row(collections[i]) : i \in
        {i \in 1..Len(collections) :
            \A j \in (i + 1)..Len(collections) : collections[j].id # collections[i].id}}

\* .delete().not("id", "in", BUILT_IN_COLLECTION_IDS)
RowsDeleted(rows) == {r \in rows : r.id \notin BUILT_IN_COLLECTION_IDS}

\* the upsert is one INSERT ... ON CONFLICT (id) DO UPDATE on the primary
\* key id, which the database rejects as a whole when two of its rows have
\* the same id
UpsertAccepted(collections) ==
    \A i, j \in 1..Len(collections) :
        i # j => collections[i].id # collections[j].id

\* .upsert(rows) on the primary key id
Upserted(rows, new) ==
    {r \in rows : \A n \in new : n.id # r.id} \cup new

\* the catch of syncWithSupabase (return false) and the else of the handler
SyncFailed ==
    Done(<<>>,
         << Note(TRUE, "Failed to sync collections to Supabase. See console for details."),
            Note(FALSE, "Syncing to Supabase failed") >>)

\* a sync that announces its success before it has sent anything
SyncStartAnnounces(data) ==
    Outcome("remote-delete", data, <<>>,
            <<Note(FALSE, "Successfully synced all collections to Supabase")>>, FALSE)

\* case "sync-to-supabase": syncWithSupabase(syncData) up to the awaited
\* delete request; syncData may be undefined, which nothing reads yet
SyncStart(data) == Outcome("remote-delete", data, <<>>, <<>>, FALSE)

\* a sync that goes on to the upsert whatever the delete returned
SyncAfterDeleteIgnoringError(data, ok) ==
    IF data # NoData
    THEN Outcome("remote-upsert", data, <<>>, <<>>, FALSE)
    ELSE SyncFailed

\* syncWithSupabase once the delete request has returned: on an error the
\* catch reports and returns false; otherwise the rows of the upsert are
\* built from data.collections (a TypeError, caught, when data is
\* undefined) and the upsert request is awaited
SyncAfterDelete(data, ok) ==
    IF ok /\ data # NoData
    THEN Outcome("remote-upsert", data, <<>>, <<>>, FALSE)
    ELSE SyncFailed

\* a sync that records the time of the sync whatever the upsert returned
SyncAfterUpsertAlwaysSaves(data, ok, t) ==
    AwaitWrite([data EXCEPT !.lastSyncedAt = t])

\* syncWithSupabase once the upsert request has returned: on an error the
\* catch reports and returns false; otherwise lastSyncedAt is set and the
\* snapshot the handler read is saved
SyncAfterUpsert(data, ok, t) ==
    IF ok THEN AwaitWrite([data EXCEPT !.lastSyncedAt = t]) ELSE SyncFailed

(***************************************************************************)
(* State                                                                   *)
(***************************************************************************)
\* a handler in flight: its message, the await it is suspended at, the
\* snapshot it read, its working copy, and the awaited calls that returned
Task(msg, pc, read, data, done) ==
    [msg |-> msg, pc |-> pc, read |-> read, data |-> data, done |-> done]
Idle == Task([type |-> "none"], "idle", NoData, NoData, <<>>)

\* What a step did (whose handler, which step, whether it wrote storage,
\* what it posted and notified, whether an exception left the handler) and
\* what it started from: the task, storage and remote rows before it.
Event(slot, msg, step, wrote, posts, notes, threw) ==
    [slot |-> slot, msg |-> msg, step |-> step, wrote |-> wrote,
     posts |-> posts, notes |-> notes, threw |-> threw,
     task |-> IF slot \in Slots THEN tasks[slot] ELSE Idle,
     before |-> storage, rowsBefore |-> remote]
Quiet(step) == Event(0, [type |-> "none"], step, FALSE, <<>>, <<>>, FALSE)

\* the lowest free slot
FreeSlot == CHOOSE s \in Slots :
                /\ tasks[s].pc = "idle"
                /\ \A r \in Slots : r < s => tasks[r].pc # "idle"

\* a row an earlier sync left in the remote table, of a collection that has
\* been deleted locally since
staleRow == Row(Collection("collection-9", "Old", <<>>, FALSE))

\* The plugin has just been loaded: on a first run storage is empty, on a
\* later one it holds the snapshot an earlier run left, and the remote
\* table may hold a row of an earlier sync; the initializePlugin() called at
\* startup is awaiting its storage read.
Init ==
    /\ storage \in {NoData, initialData, earlierData}
    /\ tasks = [s \in Slots |->
                   IF s = 1
                   THEN Task([type |-> "startup"], "read", NoData, NoData, <<>>)
                   ELSE Idle]
    /\ remote \in {{}, {staleRow}}
    /\ now = 1
    /\ sent = 0
    /\ timers = 0
    /\ event = Quiet("load")
    /\ lastWrite = [msg |-> [type |-> "none"], read |-> NoData, written |-> NoData]

(***************************************************************************)
(* Steps                                                                   *)
(***************************************************************************)
\* the task of slot s goes on to outcome out of the code it has just run
Continue(s, msg, read, out, done) ==
    tasks' = [tasks EXCEPT ![s] =
                 IF out.pc = "done" THEN Idle
                 ELSE Task(msg, out.pc, read, out.data, done)]

\* figma.ui.onmessage(msg) up to its second await (or its return); out is
\* the outcome of the handler's code on the snapshot read
Begin(msg, out) ==
    /\ sent < MaxMsgs
    /\ \E s \in Slots : tasks[s].pc = "idle"
    /\ sent' = sent + 1
    /\ Continue(FreeSlot, msg, storage, out, <<"read">>)
    /\ event' = Event(FreeSlot, msg, "start", FALSE, out.posts, out.notes, out.threw)
    /\ UNCHANGED <<storage, remote, now, timers, lastWrite>>

SavePreset ==
    \E cid \in MsgCollectionIds, p \in MsgPresets :
        LET msg == [type |-> "save-preset", collectionId |-> cid, preset |-> p]
        IN Begin(msg, SavePresetStart(storage, msg))

SaveMultiplePresets ==
    \E cid \in MsgCollectionIds, ps \in MsgPresetLists :
        LET msg == [type |-> "save-multiple-presets", collectionId |-> cid, presets |-> ps]
        IN Begin(msg, SaveMultiplePresetsStart(storage, msg, now))

ApplyPreset ==
    \E cid \in MsgCollectionIds, pid \in MsgPresetIds, sel \in BOOLEAN :
        LET msg == [type |-> "apply-preset", collectionId |-> cid, presetId |-> pid,
                    framesSelected |-> sel]
        IN Begin(msg, ApplyPresetStart(storage, msg))

\* "use-preset": no case of the switch matches
UsePreset ==
    \E cid \in MsgCollectionIds, pid \in MsgPresetIds :
        LET msg == [type |-> "use-preset", collectionId |-> cid, presetId |-> pid]
        IN Begin(msg, UnhandledStart)

ToggleFavorite ==
    \E cid \in MsgCollectionIds, pid \in MsgPresetIds :
        LET msg == [type |-> "toggle-favorite", collectionId |-> cid, presetId |-> pid]
        IN Begin(msg, ToggleFavoriteStart(storage, msg))

SetActiveCollection ==
    \E cid \in MsgCollectionIds :
        LET msg == [type |-> "set-active-collection", collectionId |-> cid]
        IN Begin(msg, SetActiveCollectionStart(storage, msg))

CreateCollection ==
    \E name \in MsgNames :
        LET msg == [type |-> "create-collection", name |-> name]
        IN Begin(msg, CreateCollectionStart(storage, msg, now))

DeleteCollection ==
    \E cid \in MsgCollectionIds :
        LET msg == [type |-> "delete-collection", collectionId |-> cid]
        IN Begin(msg, DeleteCollectionStart(storage, msg))

DeletePreset ==
    \E cid \in MsgCollectionIds, pid \in MsgPresetIds :
        LET msg == [type |-> "delete-preset", collectionId |-> cid, presetId |-> pid]
        IN Begin(msg, DeletePresetStart(storage, msg))

ReorderCollections ==
    \E ids \in MsgOrders :
        LET msg == [type |-> "reorder-collections", collectionIds |-> ids]
        IN Begin(msg, ReorderCollectionsStart(storage, msg))

SaveImportedCollection ==
    \E c \in ImportedCollections :
        LET msg == [type |-> "save-imported-collection", collection |-> c]
        IN Begin(msg, SaveImportedCollectionStart(storage, msg))

SyncToSupabase ==
    LET msg == [type |-> "sync-to-supabase"]
    IN Begin(msg, SyncStart(storage))

\* case "ui-ready": initializePlugin() is called and not awaited, and a
\* notification is scheduled with setTimeout
UiReady ==
    /\ sent < MaxMsgs
    /\ \E s \in Slots : tasks[s].pc = "idle"
    /\ sent' = sent + 1
    /\ tasks' = [tasks EXCEPT ![FreeSlot] =
                    Task([type |-> "ui-ready"], "read", NoData, NoData, <<>>)]
    /\ timers' = timers + 1
    /\ event' = Event(FreeSlot, [type |-> "ui-ready"], "start", FALSE, <<>>, <<>>, FALSE)
    /\ UNCHANGED <<storage, remote, now, lastWrite>>

\* the setTimeout callback of "ui-ready"
TimerFires ==
    /\ timers > 0
    /\ timers' = timers - 1
    /\ event' = Event(0, [type |-> "ui-ready"], "timer", FALSE, <<>>,
                      <<Note(FALSE, "Collection share IDs are now just 8 characters for easier sharing!")>>,
                      FALSE)
    /\ UNCHANGED <<storage, tasks, remote, now, sent, lastWrite>>

\* initializePlugin from its resolved getAsync on: a snapshot with
\* collections is sent as it is; otherwise the default one is saved, without
\* awaiting the write, and sent
InitializePluginStart(data) ==
    IF data # NoData
    THEN Done(<<Post("init", data, "")>>, <<>>)
    ELSE Outcome("detached-write", initialData,
                 <<Post("init", initialData, "")>>, <<>>, FALSE)

InitializePluginRead(s) ==
    /\ tasks[s].pc = "read"
    /\ Continue(s, tasks[s].msg, storage, InitializePluginStart(storage), <<"read">>)
    /\ event' = Event(s, tasks[s].msg, "init", FALSE,
                      InitializePluginStart(storage).posts, <<>>, FALSE)
    /\ UNCHANGED <<storage, remote, now, sent, timers, lastWrite>>

\* a storage write that waits for the sync in flight to be over
StorageWriteAfterSync(s) ==
    /\ tasks[s].pc \in {"write", "detached-write"}
    /\ \A r \in Slots : tasks[r].pc \notin {"remote-delete", "remote-upsert"}
    /\ storage' = tasks[s].data
    /\ lastWrite' = [msg |-> tasks[s].msg, read |-> tasks[s].read,
                     written |-> tasks[s].data]
    /\ tasks' = [tasks EXCEPT ![s] =
                    IF tasks[s].pc = "write"
                    THEN [@ EXCEPT !.pc = "finish", !.done = Append(@, "write")]
                    ELSE Idle]
    /\ event' = Event(s, tasks[s].msg, "write", TRUE, <<>>, <<>>, FALSE)
    /\ UNCHANGED <<remote, now, sent, timers>>

\* savePluginData: clientStorage.setAsync("framePresetsData", data) stores
\* the snapshot; the handler that awaits it goes on, a write that nothing
\* awaits ends there
StorageWrite(s) ==
    /\ tasks[s].pc \in {"write", "detached-write"}
    /\ storage' = tasks[s].data
    /\ lastWrite' = [msg |-> tasks[s].msg, read |-> tasks[s].read,
                     written |-> tasks[s].data]
    /\ tasks' = [tasks EXCEPT ![s] =
                    IF tasks[s].pc = "write"
                    THEN [@ EXCEPT !.pc = "finish", !.done = Append(@, "write")]
                    ELSE Idle]
    /\ event' = Event(s, tasks[s].msg, "write", TRUE, <<>>, <<>>, FALSE)
    /\ UNCHANGED <<remote, now, sent, timers>>

\* the code after the awaited savePluginData
Finish(s) ==
    /\ tasks[s].pc = "finish"
    /\ tasks' = [tasks EXCEPT ![s] = Idle]
    /\ event' = Event(s, tasks[s].msg, "finish", FALSE,
                      AfterWrite(tasks[s].msg, tasks[s].data).posts,
                      AfterWrite(tasks[s].msg, tasks[s].data).notes, FALSE)
    /\ UNCHANGED <<storage, remote, now, sent, timers, lastWrite>>

\* the awaited delete request of syncWithSupabase returns, with an error or
\* having deleted the rows
RemoteDelete(s) ==
    /\ tasks[s].pc = "remote-delete"
    /\ \E ok \in BOOLEAN :
          LET out == SyncAfterDelete(tasks[s].data, ok) IN
          /\ remote' = IF ok THEN remote \ RowsDeleted(remote) ELSE remote
          /\ Continue(s, tasks[s].msg, tasks[s].read, out,
                      IF ok THEN Append(tasks[s].done, "delete") ELSE tasks[s].done)
          /\ event' = Event(s, tasks[s].msg,
                            IF ok THEN "remote-delete" ELSE "remote-delete-failed",
                            FALSE, out.posts, out.notes, FALSE)
    /\ UNCHANGED <<storage, now, sent, timers, lastWrite>>

\* the awaited upsert request of syncWithSupabase returns, with an error or
\* having upserted the rows
RemoteUpsert(s) ==
    /\ tasks[s].pc = "remote-upsert"
    /\ \E ok \in BOOLEAN :
          LET out == SyncAfterUpsert(tasks[s].data, ok, now) IN
          /\ ok => UpsertAccepted(tasks[s].data.collections)
          /\ remote' = IF ok
                       THEN Upserted(remote, UpsertRows(tasks[s].data.collections))
                       ELSE remote
          /\ Continue(s, tasks[s].msg, tasks[s].read, out,
                      IF ok THEN Append(tasks[s].done, "upsert") ELSE tasks[s].done)
          /\ event' = Event(s, tasks[s].msg,
                            IF ok THEN "remote-upsert" ELSE "remote-upsert-failed",
                            FALSE, out.posts, out.notes, FALSE)
    /\ UNCHANGED <<storage, now, sent, timers, lastWrite>>

\* time passes
Tick ==
    /\ now < MaxClock
    /\ now' = now + 1
    /\ event' = Quiet("tick")
    /\ UNCHANGED <<storage, tasks, remote, sent, timers, lastWrite>>

Next ==
    \/ SavePreset
    \/ SaveMultiplePresets
    \/ ApplyPreset
    \/ UsePreset
    \/ ToggleFavorite
    \/ SetActiveCollection
    \/ CreateCollection
    \/ DeleteCollection
    \/ DeletePreset
    \/ ReorderCollections
    \/ SaveImportedCollection
    \/ SyncToSupabase
    \/ UiReady
    \/ TimerFires
    \/ Tick
    \/ \E s \in Slots :
          \/ InitializePluginRead(s)
          \/ StorageWrite(s)
          \/ Finish(s)
          \/ RemoteDelete(s)
          \/ RemoteUpsert(s)

Spec == Init /\ [][Next]_vars

\* Every awaited call returns: the storage reads and writes and the network
\* requests, and the event loop resumes the handler that awaits them.
ReturningSpec ==
    /\ Spec
    /\ \A s \in Slots :
           /\ WF_vars(InitializePluginRead(s))
           /\ WF_vars(StorageWrite(s))
           /\ WF_vars(Finish(s))
           /\ WF_vars(RemoteDelete(s))
           /\ WF_vars(RemoteUpsert(s))

\* The snapshot that two create-collection messages handled one after the
\* other at Date.now() = 1 leave of the seeded one: both collections have
\* the id collection-1 (Spec reaches it, see RacedDataReached).
racedData ==
    PluginData(defaultCollections
                   \o << Collection(NewCollectionId(1), "Work", <<>>, FALSE),
                         Collection(NewCollectionId(1), "Travel", <<>>, FALSE) >>,
               NewCollectionId(1), NoSync)

\* The plugin later in a run: the initialization is over, no handler is in
\* flight, and storage holds a snapshot that messages handled so far have
\* left.
LaterInit ==
    /\ storage \in {initialData, earlierData, racedData}
    /\ tasks = [s \in Slots |-> Idle]
    /\ remote = {}
    /\ now = 1
    /\ sent = 0
    /\ timers = 0
    /\ event = Quiet("load")
    /\ lastWrite = [msg |-> [type |-> "none"], read |-> NoData, written |-> NoData]

\* reorder-collections messages from there on
ReorderNext ==
    \/ ReorderCollections
    \/ Tick
    \/ \E s \in Slots :
          \/ StorageWrite(s)
          \/ Finish(s)

ReorderSpec == LaterInit /\ [][ReorderNext]_vars

\* The event loop runs every continuation that is ready: a setAsync that
\* returns resumes the handler awaiting it, and so does the code after it.
\* (Whether clientStorage and the network return is the host's affair; the
\* storage write is taken to return.)
FairSpec ==
    /\ Spec
    /\ \A s \in Slots : WF_vars(StorageWrite(s)) /\ WF_vars(Finish(s))

(***************************************************************************)
(* Properties. They are stated on the state a step leaves, of which event  *)
(* tells the step: event.before, event.rowsBefore and event.task are       *)
(* storage, the remote rows and the handler's task before the step.        *)
(***************************************************************************)
\* the last step was the given step of the handler of a message of this type
Stepped(type, step) ==
    /\ event.msg.type = type
    /\ event.step = step

\* the first collection with this id is built-in
TargetsBuiltIn(collections, id) ==
    \E i \in 1..Len(collections) :
        /\ collections[i].id = id
        /\ \A j \in 1..(i - 1) : collections[j].id # id
        /\ collections[i].isBuiltIn

\* C1: in every persisted snapshot activeCollectionId is null or the id of
\* a collection of the list.
ActiveCollectionExists ==
    storage # NoData =>
        \/ storage.activeCollectionId = Null
        \/ \E i \in 1..Len(storage.collections) :
               storage.collections[i].id = storage.activeCollectionId

\* C2: delete-collection of the collection that is active (in the snapshot
\* the handler read) writes a snapshot with one collection less whose
\* activeCollectionId is the id of its first collection, or null exactly
\* when it has no collection; it is never an id absent from the list.
DeleteActiveRepoints ==
    /\ ( /\ Stepped("delete-collection", "start")
         /\ event.before # NoData
         /\ event.before.activeCollectionId = event.msg.collectionId
         /\ \E i \in 1..Len(event.before.collections) :
                event.before.collections[i].id = event.msg.collectionId )
       => LET rest == tasks[event.slot].data.collections
              active == tasks[event.slot].data.activeCollectionId
          IN /\ tasks[event.slot].pc = "write"
             /\ Len(rest) = Len(event.before.collections) - 1
             /\ rest # <<>> => active = rest[1].id
             /\ rest = <<>> <=> active = Null
             /\ active = Null \/ \E i \in 1..Len(rest) : rest[i].id = active
    /\ Stepped("delete-collection", "write") => storage = event.task.data

\* C2 witness: the active collection has been deleted and the pointer is on
\* the first of those that remain
DeleteActiveWitness ==
    /\ Stepped("delete-collection", "write")
    /\ event.task.read.activeCollectionId = event.msg.collectionId
    /\ Len(storage.collections) > 0
    /\ storage.activeCollectionId = storage.collections[1].id

\* C3: create-collection with a name equal, ignoring case, to the name of
\* an existing collection leaves storage as it is, leaves no write pending
\* and posts collection-name-exists and nothing else.
DuplicateNameRejected ==
    ( /\ Stepped("create-collection", "start")
      /\ event.before # NoData
      /\ \E i \in 1..Len(event.before.collections) :
             ToLowerCase(event.before.collections[i].name) = ToLowerCase(event.msg.name) )
    => /\ storage = event.before
       /\ ~event.wrote
       /\ tasks[event.slot] = Idle
       /\ event.posts = <<Post("collection-name-exists", NoData, event.msg.name)>>

\* C3 witness: a name that differs from an existing one in case only has
\* been refused
DuplicateNameWitness ==
    /\ Stepped("create-collection", "start")
    /\ event.msg.name = "INSTAGRAM"
    /\ Len(event.posts) = 1
    /\ event.posts[1].type = "collection-name-exists"
    /\ storage # NoData
    /\ storage.collections[1].name = "Instagram"

\* C4: no two collections of a persisted snapshot have the same id.
CollectionIdsUnique ==
    storage # NoData =>
        \A i, j \in 1..Len(storage.collections) :
            i # j => storage.collections[i].id # storage.collections[j].id

\* C5: no two presets of a persisted snapshot, across all collections, have
\* the same id.
PresetIdsUnique ==
    storage # NoData =>
        \A c, d \in 1..Len(storage.collections) :
            \A p \in 1..Len(storage.collections[c].presets) :
                \A q \in 1..Len(storage.collections[d].presets) :
                    (c # d \/ p # q) =>
                        storage.collections[c].presets[p].id
                            # storage.collections[d].presets[q].id

\* the collections of L with this id, in the order of L
RECURSIVE WithId(_, _)
WithId(L, id) ==
    IF L = <<>> THEN <<>>
    ELSE IF Head(L).id = id THEN <<Head(L)>> \o WithId(Tail(L), id)
    ELSE WithId(Tail(L), id)

\* the collections of L named in ids, in the order of ids
RECURSIVE NamedInOrder(_, _, _)
NamedInOrder(L, ids, seen) ==
    IF ids = <<>> THEN <<>>
    ELSE IF Head(ids) \in seen THEN NamedInOrder(L, Tail(ids), seen)
    ELSE WithId(L, Head(ids)) \o NamedInOrder(L, Tail(ids), seen \cup {Head(ids)})

\* the collections of L not named in ids, in the order of L
RECURSIVE NotNamed(_, _)
NotNamed(L, ids) ==
    IF L = <<>> THEN <<>>
    ELSE IF \E k \in 1..Len(ids) : ids[k] = Head(L).id THEN NotNamed(Tail(L), ids)
    ELSE <<Head(L)>> \o NotNamed(Tail(L), ids)

\* C6: reorder-collections with a non-empty array yields the collections
\* named in it, in its order, followed by every other collection in the
\* relative order it had.
ReorderAsSpecified ==
    ( /\ Stepped("reorder-collections", "start")
      /\ event.before # NoData
      /\ event.msg.collectionIds.isArray
      /\ Len(event.msg.collectionIds.items) > 0 )
    => /\ tasks[event.slot].pc = "write"
       /\ tasks[event.slot].data.collections =
              NamedInOrder(event.before.collections, event.msg.collectionIds.items, {})
                  \o NotNamed(event.before.collections, event.msg.collectionIds.items)

\* C7: save-preset and save-multiple-presets on a built-in collection leave
\* storage as it is, leave no write pending, post nothing and show the
\* error notification only.
BuiltInRejectsPresets ==
    ( /\ event.step = "start"
      /\ event.msg.type \in {"save-preset", "save-multiple-presets"}
      /\ event.before # NoData
      /\ TargetsBuiltIn(event.before.collections, event.msg.collectionId) )
    => /\ storage = event.before
       /\ ~event.wrote
       /\ tasks[event.slot] = Idle
       /\ event.posts = <<>>
       /\ event.notes = <<Note(TRUE, "Cannot add presets to built-in collections")>>

\* C7 witness: presets sent for a built-in collection have been refused
BuiltInRejectsWitness ==
    /\ Stepped("save-multiple-presets", "start")
    /\ event.msg.collectionId = "instagram"
    /\ Len(event.msg.presets.items) = 2
    /\ storage = initialData
    /\ event.notes = <<Note(TRUE, "Cannot add presets to built-in collections")>>

\* C8: a toggle-favorite that has read the snapshot written by the toggle
\* of the same (collectionId, presetId) just before it, no write in between,
\* writes back the snapshot that first toggle had read.
ToggleTwiceRestores ==
    /\ \A s \in Slots :
          ( /\ tasks[s].msg.type = "toggle-favorite"
            /\ tasks[s].pc = "write"
            /\ lastWrite.msg = tasks[s].msg
            /\ tasks[s].read = lastWrite.written )
          => tasks[s].data = lastWrite.read
    /\ Stepped("toggle-favorite", "write") => storage = event.task.data

\* C8 witness: the second of two such toggles has written, and the preset
\* that the first had made a favorite is none again
ToggleTwiceWitness ==
    /\ Stepped("toggle-favorite", "write")
    /\ storage = initialData
    /\ lastWrite.msg = event.msg
    /\ lastWrite.read # NoData
    /\ lastWrite.read.collections[1].presets[1].isFavorite

\* C9: a sync of a snapshot whose collections are all built-in deletes the
\* remote row of none of them and upserts one row for each of them and no
\* other row.
SyncKeepsBuiltIns ==
    ( /\ event.msg.type = "sync-to-supabase"
      /\ event.step \in {"remote-delete", "remote-upsert"}
      /\ event.task.data # NoData
      /\ \A i \in 1..Len(event.task.data.collections) :
             event.task.data.collections[i].isBuiltIn )
    => LET own == IdSet(event.task.data.collections) IN
       /\ event.step = "remote-delete" =>
              \A r \in event.rowsBefore : r.id \in own => r \in remote
       /\ event.step = "remote-upsert" =>
              /\ \A r \in event.rowsBefore : r.id \notin own => r \in remote
              /\ \A r \in remote : r.id \notin own => r \in event.rowsBefore
              /\ \A i \in 1..Len(event.task.data.collections) :
                     {r \in remote : r.id = event.task.data.collections[i].id}
                         = {Row(event.task.data.collections[i])}

\* C10: the upsert of a sync is issued only once its delete has returned
\* without error; a failed delete ends the sync with no upsert, a failed
\* upsert leaves the remote rows as the delete left them; either way the
\* failure is reported, nothing is written and the handler is over.
SyncAbortsOnFailure ==
    event.msg.type = "sync-to-supabase" =>
        /\ event.step \in {"remote-upsert", "remote-upsert-failed"} =>
               event.task.done = <<"read", "delete">>
        /\ event.step \in {"remote-delete-failed", "remote-upsert-failed"} =>
               /\ remote = event.rowsBefore
               /\ storage = event.before
               /\ ~event.wrote
               /\ tasks[event.slot] = Idle
               /\ event.notes[Len(event.notes)] = Note(FALSE, "Syncing to Supabase failed")

\* C10 witness: an upsert has failed after its delete removed the row of a
\* local collection, and the row is still missing
SyncAbortsWitness ==
    /\ event.step = "remote-upsert-failed"
    /\ storage # NoData
    /\ storage.lastSyncedAt # NoSync
    /\ \E i \in 1..Len(storage.collections) :
           \A r \in remote : r.id # storage.collections[i].id

\* C11: the delete of a sync leaves the remote rows with an id of the
\* built-in list and no other; its upsert, succeeding on rows as the delete
\* left them (no row with an id outside the list written in between),
\* leaves as the remote rows with an id outside the list exactly the rows
\* of the local collections with such an id, and a row with its id, name,
\* presets and built-in flag for every local collection.
SyncReplacesRemote ==
  /\ Stepped("sync-to-supabase", "remote-delete") =>
         remote = {r \in event.rowsBefore : r.id \in BUILT_IN_COLLECTION_IDS}
  /\
    ( /\ Stepped("sync-to-supabase", "remote-upsert")
      /\ \A r \in event.rowsBefore : r.id \in BUILT_IN_COLLECTION_IDS )
    => LET local == event.task.data.collections IN
       /\ {r \in remote : r.id \notin BUILT_IN_COLLECTION_IDS}
              = {Row(local[i]) : i \in {j \in 1..Len(local) :
                                           local[j].id \notin BUILT_IN_COLLECTION_IDS}}
       /\ \A i \in 1..Len(local) : Row(local[i]) \in remote

\* C11 witness: a sync has succeeded that removed the row of a collection
\* deleted locally and stored the rows of the local ones, built-in or not
SyncReplacesWitness ==
    /\ Stepped("sync-to-supabase", "remote-upsert")
    /\ staleRow \notin remote
    /\ Cardinality(remote) = 4
    /\ \E r \in remote : r.id = "instagram"
    /\ \E r \in remote : r.id = "print"

\* C12: the write of a toggle-favorite or of a create-collection stores
\* what the handler made of the snapshot it had read, whatever has been
\* written since: a toggle stores the snapshot it read with one flag
\* flipped, a create stores the collections it read and the new one after
\* them. So of two such handlers that both read before either wrote, the
\* one that writes last undoes the other (the witness).
LastWriteWins ==
    /\ Stepped("toggle-favorite", "write") =>
           \E c \in 1..Len(event.task.read.collections) :
               \E p \in 1..Len(event.task.read.collections[c].presets) :
                   storage = [event.task.read EXCEPT
                                 !.collections[c].presets[p].isFavorite = ~@]
    /\ Stepped("create-collection", "write") =>
           /\ Len(storage.collections) = Len(event.task.read.collections) + 1
           /\ SubSeq(storage.collections, 1, Len(event.task.read.collections))
                  = event.task.read.collections
           /\ storage.collections[Len(storage.collections)].name = event.msg.name
           /\ storage.lastSyncedAt = event.task.read.lastSyncedAt

\* C12 witness: a create-collection and a toggle-favorite both read the
\* seeded snapshot; the toggle wrote it with its favorite and completed,
\* then the create wrote over it, and the favorite is gone from storage
\* while the create goes on to its update
LostUpdateWitness ==
    /\ Stepped("create-collection", "write")
    /\ event.task.read = initialData
    /\ event.before = [initialData EXCEPT !.collections[1].presets[1].isFavorite = TRUE]
    /\ \A s \in Slots : s # event.slot => tasks[s] = Idle
    /\ tasks[event.slot].pc = "finish"
    /\ Len(storage.collections) = 5
    /\ ~storage.collections[1].presets[1].isFavorite

\* C13: at most one message is being handled at any time: no two handlers
\* (the initialization started at startup or by ui-ready included) are
\* suspended at an awaited storage or network call, or about to go on from
\* one, at once.
OneMessageAtATime ==
    Cardinality({s \in Slots : tasks[s].pc \notin {"idle", "detached-write"}}) <= 1

\* C14: no step of a handler ends with an exception leaving the handler.
NoExceptionEscapes == ~event.threw

\* the update messages among posts
UpdatesOf(posts) == {k \in 1..Len(posts) : posts[k].type = "update"}

\* C15: an update message is posted only by the code that runs after the
\* handler's awaited storage write has returned, and it carries the
\* snapshot that write stored.
UpdateAfterWrite ==
    /\ \A k \in UpdatesOf(event.posts) :
           /\ event.step = "finish"
           /\ event.task.pc = "finish"
           /\ event.task.done[Len(event.task.done)] = "write"
           /\ event.posts[k].data = event.task.data
    /\ event.step = "write" =>
           /\ storage = event.task.data
           /\ tasks[event.slot].pc = "finish" => tasks[event.slot].data = storage

\* C15 witness: create-collection has posted its update, and storage holds
\* the snapshot it carries
UpdateAfterWriteWitness ==
    /\ Stepped("create-collection", "finish")
    /\ event.posts = <<Update(storage)>>
    /\ lastWrite.msg = event.msg
    /\ storage.activeCollectionId = NewCollectionId(1)

\* the messages whose handler posts an update once it has saved
Mutations ==
    {"create-collection", "delete-collection", "reorder-collections",
     "save-preset", "save-multiple-presets", "delete-preset",
     "toggle-favorite", "set-active-collection"}

\* C16: a handler of one of these messages that has accepted the mutation
\* (it is saving the new snapshot) goes on, the write returning, to post
\* an update, and the update it posts carries the snapshot it saved.
UpdateFollowsMutation ==
    /\ \A s \in Slots :
           (tasks[s].pc = "write" /\ tasks[s].msg.type \in Mutations)
               ~> ( /\ event.slot = s
                    /\ event.step = "finish"
                    /\ event.msg.type \in Mutations
                    /\ event.posts = <<Update(event.task.data)>> )
    /\ [](event.step = "write" =>
             (tasks[event.slot].pc = "finish" =>
                  tasks[event.slot].data = event.task.data))

\* C16 witness: delete-preset on a custom collection has removed the preset
\* and posted the update with the new snapshot
UpdateFollowsWitness ==
    /\ Stepped("delete-preset", "finish")
    /\ event.msg.collectionId = "collection-0"
    /\ event.posts = <<Update(storage)>>
    /\ storage.collections[1].presets = <<>>

\* C17: a collection of a persisted snapshot whose isBuiltIn flag is set
\* has the preset ids it was seeded with, in their order.
BuiltInPresetsFixed ==
    storage # NoData =>
        \A i \in 1..Len(storage.collections) :
            storage.collections[i].isBuiltIn =>
                \E j \in 1..Len(defaultCollections) :
                    /\ defaultCollections[j].id = storage.collections[i].id
                    /\ [k \in 1..Len(storage.collections[i].presets) |->
                           storage.collections[i].presets[k].id]
                         = [k \in 1..Len(defaultCollections[j].presets) |->
                               defaultCollections[j].presets[k].id]

\* C18: delete-preset on a built-in collection leaves storage as it is,
\* leaves no write pending, posts nothing and shows the error notification.
BuiltInRejectsDelete ==
    ( /\ Stepped("delete-preset", "start")
      /\ event.before # NoData
      /\ TargetsBuiltIn(event.before.collections, event.msg.collectionId) )
    => /\ storage = event.before
       /\ ~event.wrote
       /\ tasks[event.slot] = Idle
       /\ event.posts = <<>>
       /\ event.notes = <<Note(TRUE, "Cannot delete presets from built-in collections")>>

\* C18 witness: the delete of a preset of a built-in collection has been
\* refused and the preset is still there
BuiltInRejectsDeleteWitness ==
    /\ Stepped("delete-preset", "start")
    /\ event.msg.collectionId = "instagram"
    /\ event.msg.presetId = "instagram-post"
    /\ Len(event.notes) = 1
    /\ storage # NoData
    /\ storage.collections[1].id = "instagram"
    /\ storage.collections[1].presets[1].id = "instagram-post"

\* C19: reorder-collections whose collectionIds is missing, not an array
\* or empty leaves storage as it is, leaves no write pending and posts
\* nothing.
InvalidReorderIsNoOp ==
    ( /\ Stepped("reorder-collections", "start")
      /\ ~event.msg.collectionIds.isArray \/ Len(event.msg.collectionIds.items) = 0 )
    => /\ storage = event.before
       /\ ~event.wrote
       /\ tasks[event.slot] = Idle
       /\ event.posts = <<>>

\* C19 witness: an empty array has been sent for a snapshot with several
\* collections
InvalidReorderWitness ==
    /\ Stepped("reorder-collections", "start")
    /\ event.msg.collectionIds.isArray
    /\ event.msg.collectionIds.items = <<>>
    /\ storage = initialData
    /\ ~event.threw

\* C20: toggle-favorite whose collectionId names no collection, or whose
\* presetId names no preset of the collection named, leaves storage as it
\* is, leaves no write pending and posts nothing.
ToggleUnknownIsNoOp ==
    ( /\ Stepped("toggle-favorite", "start")
      /\ \/ event.before = NoData
         \/ \A i \in 1..Len(event.before.collections) :
                event.before.collections[i].id # event.msg.collectionId
         \/ \E i \in 1..Len(event.before.collections) :
                /\ event.before.collections[i].id = event.msg.collectionId
                /\ \A j \in 1..(i - 1) :
                       event.before.collections[j].id # event.msg.collectionId
                /\ \A k \in 1..Len(event.before.collections[i].presets) :
                       event.before.collections[i].presets[k].id # event.msg.presetId )
    => /\ storage = event.before
       /\ ~event.wrote
       /\ tasks[event.slot] = Idle
       /\ event.posts = <<>>

\* C20 witness: a toggle has named a collection that exists and a preset it
\* does not hold
ToggleUnknownWitness ==
    /\ Stepped("toggle-favorite", "start")
    /\ event.msg.collectionId = "instagram"
    /\ event.msg.presetId = "p1"
    /\ storage = initialData
    /\ ~event.threw
    /\ tasks[event.slot] = Idle

\* C21: create-collection with a name that matches, ignoring case, no name
\* of the snapshot it read saves that snapshot with one collection more:
\* the collections it read, unchanged and in their order, then the new one
\* with the name given, no preset and no built-in flag;
\* activeCollectionId is the id of the new one.
CreateAppendsOne ==
    /\ ( /\ Stepped("create-collection", "start")
         /\ event.before # NoData
         /\ \A i \in 1..Len(event.before.collections) :
                ToLowerCase(event.before.collections[i].name)
                    # ToLowerCase(event.msg.name) )
       => LET new == tasks[event.slot].data
              n == Len(event.before.collections)
          IN /\ tasks[event.slot].pc = "write"
             /\ Len(new.collections) = n + 1
             /\ SubSeq(new.collections, 1, n) = event.before.collections
             /\ new.collections[n + 1].name = event.msg.name
             /\ new.collections[n + 1].presets = <<>>
             /\ ~new.collections[n + 1].isBuiltIn
             /\ new.activeCollectionId = new.collections[n + 1].id
             /\ new.lastSyncedAt = event.before.lastSyncedAt
    /\ Stepped("create-collection", "write") => storage = event.task.data

\* C21 witness: a collection has been created after the four seeded ones
\* and is the active one
CreateAppendsWitness ==
    /\ Stepped("create-collection", "write")
    /\ event.msg.name = "Travel"
    /\ Len(storage.collections) = 5
    /\ storage.collections[5].name = "Travel"
    /\ storage.activeCollectionId = storage.collections[5].id
    /\ SubSeq(storage.collections, 1, 4) = defaultCollections

\* C22: delete-collection whose id names a collection of the snapshot it
\* read, built-in or not, saves that snapshot without that collection (the
\* first with the id), the others unchanged and in their order, and with
\* the same activeCollectionId when it was not the id deleted; when the id
\* names no collection nothing is written and nothing posted.
DeleteRemovesOne ==
    /\ ( /\ Stepped("delete-collection", "start")
         /\ event.before # NoData )
       => LET old == event.before.collections
              hits == {i \in 1..Len(old) : old[i].id = event.msg.collectionId}
          IN IF hits = {}
             THEN /\ storage = event.before
                  /\ ~event.wrote
                  /\ tasks[event.slot] = Idle
                  /\ event.posts = <<>>
             ELSE LET new == tasks[event.slot].data IN
                  /\ tasks[event.slot].pc = "write"
                  /\ \E i \in hits :
                         /\ \A j \in hits : i <= j
                         /\ new.collections =
                                SubSeq(old, 1, i - 1) \o SubSeq(old, i + 1, Len(old))
                  /\ event.before.activeCollectionId # event.msg.collectionId
                         => new.activeCollectionId = event.before.activeCollectionId
                  /\ new.lastSyncedAt = event.before.lastSyncedAt
    /\ Stepped("delete-collection", "write") => storage = event.task.data

\* C22 witness: a built-in collection that was not the active one has been
\* deleted, and the active one is what it was
DeleteRemovesWitness ==
    /\ Stepped("delete-collection", "write")
    /\ event.msg.collectionId = "instagram"
    /\ event.task.read # NoData
    /\ event.task.read.activeCollectionId = "7"
    /\ event.task.read.collections[1].isBuiltIn
    /\ storage.activeCollectionId = "7"
    /\ storage.collections[1].id = "twitter"

\* C23: set-active-collection saves the snapshot it read with
\* activeCollectionId set to the id of the message, whether or not a
\* collection has that id, and with nothing else changed.
SetActiveOverwrites ==
    /\ ( /\ Stepped("set-active-collection", "start")
         /\ event.before # NoData )
       => /\ tasks[event.slot].pc = "write"
          /\ tasks[event.slot].data.activeCollectionId = event.msg.collectionId
          /\ tasks[event.slot].data.collections = event.before.collections
          /\ tasks[event.slot].data.lastSyncedAt = event.before.lastSyncedAt
    /\ Stepped("set-active-collection", "write") => storage = event.task.data

\* C23 witness: an id that names no collection has been persisted as the
\* active one
SetActiveWitness ==
    /\ Stepped("set-active-collection", "write")
    /\ event.msg.collectionId = "7"
    /\ storage.activeCollectionId = "7"
    /\ storage.collections = defaultCollections

\* C24: a sync whose delete or upsert fails shows one notification, the
\* failure, and none of the notifications of a success.
SingleFailureNotification ==
    event.step \in {"remote-delete-failed", "remote-upsert-failed"} =>
        /\ Len(event.notes) = 1
        /\ \A k \in 1..Len(event.notes) :
               /\ event.notes[k].text # "Successfully synced all collections to Supabase"
               /\ event.notes[k].text # "Syncing to Supabase completed"

\* C25: an initialization writes the default snapshot only on storage that
\* holds no snapshot, so never over a persisted one; one that reads a
\* snapshot writes nothing and posts it unchanged as init.
InitSeedsOnce ==
    /\ ( /\ event.step = "write"
         /\ event.msg.type \in {"startup", "ui-ready"} )
       => /\ event.before = NoData
          /\ storage = initialData
    /\ ( /\ event.step = "init"
         /\ event.before # NoData )
       => /\ storage = event.before
          /\ tasks[event.slot] = Idle
          /\ event.posts = <<Post("init", event.before, "")>>

\* C26: the presets that save-preset and save-multiple-presets add to a
\* custom collection have, one for one, the width, height, favorite flag
\* and clipsContent of the presets of the message.
PresetSavedAsSupplied ==
    ( /\ event.step = "start"
      /\ event.msg.type \in {"save-preset", "save-multiple-presets"}
      /\ tasks[event.slot].pc = "write" )
    => \E c \in 1..Len(event.before.collections) :
          LET supplied == IF event.msg.type = "save-preset"
                          THEN <<event.msg.preset>>
                          ELSE event.msg.presets.items
              old == event.before.collections[c].presets
              new == tasks[event.slot].data.collections[c].presets
          IN /\ event.before.collections[c].id = event.msg.collectionId
             /\ Len(new) = Len(old) + Len(supplied)
             /\ \A k \in 1..Len(supplied) :
                    /\ new[Len(old) + k].width = supplied[k].width
                    /\ new[Len(old) + k].height = supplied[k].height
                    /\ new[Len(old) + k].isFavorite = supplied[k].isFavorite
                    /\ new[Len(old) + k].clipsContent = supplied[k].clipsContent

\* C27: apply-preset and use-preset leave storage as it is, leave no write
\* pending and post no update, whatever they find.
ApplyNeverWrites ==
    ( /\ event.step = "start"
      /\ event.msg.type \in {"apply-preset", "use-preset"} )
    => /\ storage = event.before
       /\ ~event.wrote
       /\ tasks[event.slot] = Idle
       /\ UpdatesOf(event.posts) = {}

\* C27 witness: a preset has been applied to the selected frames
ApplyNeverWritesWitness ==
    /\ Stepped("apply-preset", "start")
    /\ event.msg.framesSelected
    /\ event.notes = <<Note(FALSE, "Applied preset to selected frames")>>
    /\ storage = earlierData

\* a sync suspended at a network request
SyncSuspended(r) == tasks[r].pc \in {"remote-delete", "remote-upsert"}

\* C28: a handler that is saving its snapshot while a sync is suspended at
\* a network request completes, its write done and its update posted,
\* whether or not the request ever returns.
SyncBlocksNoOne ==
    \A s, r \in Slots :
        (SyncSuspended(r) /\ tasks[s].pc = "write" /\ tasks[s].msg.type \in Mutations)
            ~> ( /\ event.slot = s
                 /\ event.step = "finish"
                 /\ event.task.done = <<"read", "write">>
                 /\ UpdatesOf(event.posts) # {} )

\* C28 witness: a message sent after the sync has been handled to its
\* update while the sync still waits for its first request
SyncBlocksNoOneWitness ==
    /\ event.step = "finish"
    /\ event.msg.type = "toggle-favorite"
    /\ event.posts = <<Update(storage)>>
    /\ \E r \in Slots :
           /\ tasks[r].pc = "remote-delete"
           /\ tasks[r].read # storage
    /\ remote = {staleRow}

\* C29: the storage write of a sync changes nothing but lastSyncedAt: the
\* collections and activeCollectionId in storage after it are those that
\* were there before it.
SyncWritesOnlyTime ==
    Stepped("sync-to-supabase", "write") =>
        /\ storage.collections = event.before.collections
        /\ storage.activeCollectionId = event.before.activeCollectionId

\* C30: a write that changes lastSyncedAt of the snapshot its handler read
\* is the write of a sync whose delete and upsert have both returned
\* without error, in this order; a sync whose delete or upsert fails
\* leaves storage as it is and no write pending.
SyncTimeAfterSuccess ==
    /\ ( /\ event.step = "write"
         /\ event.task.read # NoData
         /\ storage.lastSyncedAt # event.task.read.lastSyncedAt )
       => /\ event.msg.type = "sync-to-supabase"
          /\ event.task.done = <<"read", "delete", "upsert">>
    /\ Stepped("sync-to-supabase", "write") =>
           event.task.done = <<"read", "delete", "upsert">>
    /\ event.step \in {"remote-delete-failed", "remote-upsert-failed"} =>
           /\ storage = event.before
           /\ ~event.wrote
           /\ tasks[event.slot] = Idle

\* C30 witness: a sync has recorded its time after both requests succeeded
SyncTimeWitness ==
    /\ Stepped("sync-to-supabase", "write")
    /\ event.before.lastSyncedAt = NoSync
    /\ storage.lastSyncedAt = now
    /\ Cardinality(remote) = Len(storage.collections)

\* Spec reaches storage holding racedData
RacedDataReached == storage = racedData

\* the number of places of seq that hold x
Count(seq, x) == Cardinality({i \in 1..Len(seq) : seq[i] = x})

\* C31: reorder-collections with a non-empty array saves the snapshot it
\* read with its collections permuted: every collection, with its name,
\* flag and presets, is there as many times as before, and
\* activeCollectionId and lastSyncedAt are what they were.
ReorderPermutes ==
    ( /\ Stepped("reorder-collections", "start")
      /\ event.before # NoData
      /\ event.msg.collectionIds.isArray
      /\ Len(event.msg.collectionIds.items) > 0 )
    => LET old == event.before.collections
           new == tasks[event.slot].data.collections
       IN /\ tasks[event.slot].pc = "write"
          /\ Len(new) = Len(old)
          /\ \A i \in 1..Len(old) : Count(new, old[i]) = Count(old, old[i])
          /\ tasks[event.slot].data.activeCollectionId
                 = event.before.activeCollectionId
          /\ tasks[event.slot].data.lastSyncedAt = event.before.lastSyncedAt

\* C32: no two collections of a persisted snapshot have names that are
\* equal ignoring case.
NamesUniqueIgnoringCase ==
    storage # NoData =>
        \A i, j \in 1..Len(storage.collections) :
            i # j => ToLowerCase(storage.collections[i].name)
                        # ToLowerCase(storage.collections[j].name)

\* the places of collections that hold a collection with this id
Places(collections, id) == {i \in 1..Len(collections) : collections[i].id = id}

\* C33: save-imported-collection saves the snapshot it read with the
\* imported collection in the place of the first collection that has its
\* id, or after the others when none has; nothing else of the snapshot
\* changes; the handler posts nothing, before or after the write.
ImportReplacesOrAppends ==
    /\ ( /\ Stepped("save-imported-collection", "start")
         /\ event.before # NoData )
       => LET old == event.before.collections
              new == tasks[event.slot].data
              hits == Places(old, event.msg.collection.id)
          IN /\ tasks[event.slot].pc = "write"
             /\ event.posts = <<>>
             /\ new.activeCollectionId = event.before.activeCollectionId
             /\ new.lastSyncedAt = event.before.lastSyncedAt
             /\ IF hits = {}
                THEN new.collections = old \o <<event.msg.collection>>
                ELSE /\ Len(new.collections) = Len(old)
                     /\ \A i \in 1..Len(old) :
                            new.collections[i] =
                                IF i \in hits /\ \A j \in hits : i <= j
                                THEN event.msg.collection
                                ELSE old[i]
    /\ Stepped("save-imported-collection", "write") => storage = event.task.data
    /\ Stepped("save-imported-collection", "finish") => event.posts = <<>>

\* C33 witness: an imported collection has taken the place of the stored
\* one with its id, the first of four
ImportReplacesWitness ==
    /\ Stepped("save-imported-collection", "finish")
    /\ event.msg.collection.id = "instagram"
    /\ Len(storage.collections) = 4
    /\ storage.collections[1] = event.msg.collection
    /\ storage.collections[2] = defaultCollections[2]
    /\ storage.activeCollectionId = "instagram"

\* C34: delete-preset on a custom collection of the snapshot it read saves
\* that snapshot with the presets of that collection that have another id,
\* in their order, and nothing else changed.
DeletePresetFilters ==
    /\ ( /\ Stepped("delete-preset", "start")
         /\ event.before # NoData
         /\ Places(event.before.collections, event.msg.collectionId) # {}
         /\ ~TargetsBuiltIn(event.before.collections, event.msg.collectionId) )
       => LET old == event.before.collections
              c == CHOOSE i \in Places(old, event.msg.collectionId) :
                       \A j \in Places(old, event.msg.collectionId) : i <= j
              Other(p) == p.id # event.msg.presetId
          IN /\ tasks[event.slot].pc = "write"
             /\ tasks[event.slot].data =
                    [event.before EXCEPT !.collections[c].presets = SelectSeq(@, Other)]
    /\ Stepped("delete-preset", "write") => storage = event.task.data

\* C34 witness: both presets with the id given have been removed from a
\* custom collection
DeletePresetFiltersWitness ==
    /\ Stepped("delete-preset", "write")
    /\ event.msg.presetId = "p1"
    /\ event.task.read.collections[1].presets = <<Card, Card>>
    /\ storage.collections[1].presets = <<>>

\* C35: save-multiple-presets with a non-empty array for a custom
\* collection of the snapshot it read saves that snapshot with as many
\* presets more at the end of that collection, named and sized as those of
\* the message and in their order, and nothing else changed; with no
\* array, an empty one or, as for save-preset, an id that names no
\* collection, nothing is written or posted, and nothing notified either
\* unless the collection is built-in.
SaveMultipleAppends ==
    /\ ( /\ Stepped("save-multiple-presets", "start")
         /\ event.before # NoData
         /\ Places(event.before.collections, event.msg.collectionId) # {}
         /\ ~TargetsBuiltIn(event.before.collections, event.msg.collectionId)
         /\ event.msg.presets.isArray
         /\ Len(event.msg.presets.items) > 0 )
       => LET old == event.before.collections
              c == CHOOSE i \in Places(old, event.msg.collectionId) :
                       \A j \in Places(old, event.msg.collectionId) : i <= j
              new == tasks[event.slot].data
              items == event.msg.presets.items
              n == Len(old[c].presets)
          IN /\ tasks[event.slot].pc = "write"
             /\ Len(new.collections[c].presets) = n + Len(items)
             /\ SubSeq(new.collections[c].presets, 1, n) = old[c].presets
             /\ \A k \in 1..Len(items) :
                    /\ new.collections[c].presets[n + k].name = items[k].name
                    /\ new.collections[c].presets[n + k].width = items[k].width
                    /\ new.collections[c].presets[n + k].height = items[k].height
             /\ [new EXCEPT !.collections[c].presets = old[c].presets] = event.before
    /\ ( /\ event.step = "start"
         /\ event.before # NoData
         /\ \/ /\ event.msg.type \in {"save-preset", "save-multiple-presets"}
               /\ Places(event.before.collections, event.msg.collectionId) = {}
            \/ /\ event.msg.type = "save-multiple-presets"
               /\ ~event.msg.presets.isArray \/ Len(event.msg.presets.items) = 0 )
       => /\ storage = event.before
          /\ ~event.wrote
          /\ tasks[event.slot] = Idle
          /\ event.posts = <<>>
          /\ ~TargetsBuiltIn(event.before.collections, event.msg.collectionId)
                 => event.notes = <<>>
    /\ Stepped("save-multiple-presets", "write") => storage = event.task.data

\* C35 witness: two presets have been added after the one a custom
\* collection held
SaveMultipleWitness ==
    /\ Stepped("save-multiple-presets", "write")
    /\ Len(storage.collections[1].presets) = 3
    /\ storage.collections[1].presets[1] = Card
    /\ storage.collections[1].presets[2].name = "Card"
    /\ storage.collections[1].presets[3].name = "Banner"

\* C36: toggle-favorite that finds its preset (the first with presetId in
\* the first collection with collectionId, built-in or not) saves the
\* snapshot it read with the isFavorite flag of that preset flipped and
\* nothing else changed.
ToggleFlipsOneFlag ==
    /\ ( /\ Stepped("toggle-favorite", "start")
         /\ event.before # NoData
         /\ tasks[event.slot].pc = "write" )
       => LET old == event.before.collections
              c == CHOOSE i \in Places(old, event.msg.collectionId) :
                       \A j \in Places(old, event.msg.collectionId) : i <= j
              p == CHOOSE i \in Places(old[c].presets, event.msg.presetId) :
                       \A j \in Places(old[c].presets, event.msg.presetId) : i <= j
          IN tasks[event.slot].data =
                 [event.before EXCEPT !.collections[c].presets[p].isFavorite =
                                          ~old[c].presets[p].isFavorite]
    /\ ( /\ Stepped("toggle-favorite", "start")
         /\ event.before # NoData
         /\ \E i \in 1..Len(event.before.collections) :
                /\ event.before.collections[i].id = event.msg.collectionId
                /\ \A j \in 1..(i - 1) :
                       event.before.collections[j].id # event.msg.collectionId
                /\ Places(event.before.collections[i].presets, event.msg.presetId) # {} )
       => tasks[event.slot].pc = "write"
    /\ Stepped("toggle-favorite", "write") => storage = event.task.data

\* C36 witness: a preset of a built-in collection has been made a favorite
\* and the rest of the snapshot is as seeded
ToggleFlipsWitness ==
    /\ Stepped("toggle-favorite", "write")
    /\ event.msg.collectionId = "instagram"
    /\ storage.collections[1].isBuiltIn
    /\ storage.collections[1].presets[1].isFavorite
    /\ [storage EXCEPT !.collections[1].presets[1].isFavorite = FALSE] = initialData

\* C37: an initialization that found no snapshot posts init with the
\* default snapshot only once storage holds it.
InitAfterDefaultWrite ==
    \A k \in 1..Len(event.posts) :
        (event.posts[k].type = "init" /\ event.before = NoData)
            => /\ storage = event.posts[k].data
               /\ tasks[event.slot].pc # "detached-write"

\* C38: every handler in flight ends, all awaited calls returning; and a
\* sync writes storage and notifies only at or after the return of a
\* network request: its write and its success notifications once delete
\* and upsert have both returned, its failure notifications at the return
\* of the request that failed (or of the delete, when there is no snapshot
\* to build the upsert from). Until its request returns it is suspended,
\* writes no lastSyncedAt and notifies nothing.
HandlersTerminate ==
    /\ \A s \in Slots : (tasks[s].pc # "idle") ~> (tasks[s].pc = "idle")
    /\ [](event.msg.type = "sync-to-supabase" =>
             /\ (event.wrote \/ event.notes # <<>>) =>
                    event.step \in {"remote-delete", "remote-delete-failed",
                                    "remote-upsert-failed", "write", "finish"}
             /\ event.step \in {"write", "finish"} =>
                    SubSeq(event.task.done, 1, 3) = <<"read", "delete", "upsert">>
             /\ event.step \in {"start", "remote-delete"} =>
                    (tasks[event.slot].pc # "idle" => SyncSuspended(event.slot)))

\* C38 witness: a sync has run to its end, its requests and its write
\* having returned
HandlersTerminateWitness ==
    /\ Stepped("sync-to-supabase", "finish")
    /\ event.task.done = <<"read", "delete", "upsert", "write">>
    /\ tasks[event.slot] = Idle
    /\ storage.lastSyncedAt # NoSync
    /\ Len(event.notes) = 2

====
